---- MODULE Spec2Model ----
(***************************************************************************)
(* HyP3 client (src/hyp3_sdk/hyp3.py): the remote calls find_jobs,         *)
(* get_job_by_id, submit_prepared_jobs and my_info, refresh of a Job or a  *)
(* Batch, and the bounded watch loop.  One call runs at a time; every      *)
(* answer of the remote service is chosen nondeterministically.            *)
(***************************************************************************)
EXTENDS Integers, Sequences, FiniteSets, TLC

\* ---------------------------------------------------------------- bounds
MaxTimeout == 3
MaxInterval == 2
MaxBatch == 2
MaxRecords == 2

\* ---------------------------------------------------------------- data
JobIds == {"j1", "j2"}
Statuses == {"PENDING", "RUNNING", "SUCCEEDED", "FAILED"}
TerminalStatuses == {"SUCCEEDED", "FAILED"}
\* statuses of the jobs held by the caller when a call starts (as submitted, or
\* as found complete), and statuses the service answers with; the code tells
\* PENDING from RUNNING nowhere
CallerStatuses == {"PENDING", "SUCCEEDED"}
ServiceStatuses == {"RUNNING", "SUCCEEDED", "FAILED"}

JobOf(id, st) == [job_id |-> id, status_code |-> st]

RECURSIVE SeqsUpTo(_, _)
SeqsUpTo(S, n) ==
    IF n = 0 THEN {<<>>}
    ELSE LET shorter == SeqsUpTo(S, n - 1)
         IN  shorter \cup {Append(s, x) : s \in {t \in shorter : Len(t) = n - 1}, x \in S}

\* a Job or a Batch as the caller holds it: kind tells which
JobTarget(j) == [kind |-> "Job", jobs |-> <<j>>]
Batch(js) == [kind |-> "Batch", jobs |-> js]
NoValue == [kind |-> "None", jobs |-> <<>>]
UserInfo == [kind |-> "Info", jobs |-> <<>>]

\* the caller's Job, or Batch of jobs with any ids (repeated ids included), all
\* in one status
CallerJobs == {JobOf(id, st) : id \in JobIds, st \in CallerStatuses}
CallerTargets ==
    {JobTarget(j) : j \in CallerJobs}
    \cup {Batch([k \in 1..Len(ids) |-> JobOf(ids[k], st)]) :
            ids \in SeqsUpTo(JobIds, MaxBatch), st \in CallerStatuses}

\* Job.complete(): SUCCEEDED or FAILED
JobComplete(j) == j.status_code \in TerminalStatuses

\* Batch.complete(): every job complete (true of the empty batch)
BatchComplete(b) == \A i \in 1..Len(b.jobs) : JobComplete(b.jobs[i])

\* Batch._count_statuses()[st]
CountStatus(b, st) == Cardinality({i \in 1..Len(b.jobs) : b.jobs[i].status_code = st})

\* ---------------------------------------------------------------- errors
HyP3Error == "HyP3Error"
NoExc == [cls |-> "None", text |-> "", job_id |-> "", subject |-> NoValue]
Exc(c, t, id, s) == [cls |-> c, text |-> t, job_id |-> id, subject |-> s]

\* ---------------------------------------------------------------- transport
\* outcome of session.get / session.post followed by raise_for_status and
\* the parsing of the body
\*   net = "ConnectionError": the request itself raises (a RequestException)
\*   http = 200 / 404 / 500: the response status
\*   body: the statuses of the returned records, or "malformed"
HttpCodes == {200, 404, 500}
JobResponses ==
    {[net |-> "ConnectionError", http |-> 0, body |-> "none"]}
    \cup {[net |-> "ok", http |-> h, body |-> "none"] : h \in {404, 500}}
    \cup {[net |-> "ok", http |-> 200, body |-> b] : b \in ServiceStatuses \cup {"malformed"}}

ListResponses ==
    {[net |-> "ConnectionError", http |-> 0, records |-> <<>>]}
    \cup {[net |-> "ok", http |-> h, records |-> <<>>] : h \in {404, 500}}
    \cup {[net |-> "ok", http |-> 200, records |-> rs] :
            rs \in SeqsUpTo({JobOf(id, "PENDING") : id \in JobIds}, MaxRecords)}

Ok(v) == [kind |-> "return", value |-> v, exc |-> NoExc]
Raise(e) == [kind |-> "raise", value |-> NoValue, exc |-> e]
NoResult == [kind |-> "none", value |-> NoValue, exc |-> NoExc]

\* a 404 answer is given an error class of its own
get_job_by_id_not_found(job_id, resp) ==
    IF resp.net = "ok" /\ resp.http = 404
    THEN Raise(Exc("NotFoundError", "Unable to get job by ID", job_id, NoValue))
    ELSE IF resp.net = "ConnectionError" \/ resp.http # 200
    THEN Raise(Exc(HyP3Error, "Unable to get job by ID", job_id, NoValue))
    ELSE IF resp.body = "malformed"
    THEN Raise(Exc("ParseError", "", "", NoValue))
    ELSE Ok(JobTarget(JobOf(job_id, resp.body)))

\* HyP3.get_job_by_id: the request and raise_for_status are both inside the
\* try, and the handler catches RequestException (HTTPError is one)
get_job_by_id(job_id, resp) ==
    IF resp.net = "ConnectionError" \/ resp.http # 200
    THEN Raise(Exc(HyP3Error, "Unable to get job by ID", job_id, NoValue))
    ELSE IF resp.body = "malformed"
    THEN Raise(Exc("ParseError", "", "", NoValue))
    ELSE Ok(JobTarget(JobOf(job_id, resp.body)))

\* off by one when interval divides timeout
CeilOffByOne(a, b) == (a \div b) + 1

\* the quotient rounded down
CeilFloor(a, b) == a \div b

\* math.ceil(timeout / interval)
Ceil(a, b) == IF a % b = 0 THEN a \div b ELSE (a \div b) + 1

VARIABLES
    pc,             \* position of the running call
    op,             \* the public method being run
    arg,            \* the Job/Batch object the caller passed in
    job_or_batch,   \* watch's local `batch` / `job`; refresh's argument
    timeout, interval, iterations_until_timeout,
    ii,             \* watch's loop variable (-1 before the first iteration)
    jobs,           \* _refresh_batch's local list
    progress_bar,   \* tqdm bar: n, total, postfix (remaining seconds)
    result,         \* what the call returned or raised
    warned,         \* warnings.warn calls made by the running call
    request,        \* payloads of the POST /jobs requests made, in order
    refreshes,      \* self.refresh calls made by the running watch
    sleeps,         \* time.sleep calls made by the running watch
    updates,        \* progress_bar.update calls made by the running watch
    fetched,        \* requests of the refresh in progress and their answers, in order
    snapshot,       \* value returned by the most recent self.refresh call
    trace,          \* refresh / sleep events of the running watch, in order
    lastResp,       \* the last answer of the remote service: net, http
    records,        \* response.json()['jobs'] of the last answer to /jobs
    call            \* arguments of the prepare_*/submit_* call made

vars == <<pc, op, arg, job_or_batch, timeout, interval, iterations_until_timeout, ii,
          jobs, progress_bar, result, warned, request, refreshes, sleeps, updates,
          fetched, snapshot, trace, lastResp, records, call>>

watchVars == <<timeout, interval, iterations_until_timeout, ii, progress_bar,
               refreshes, sleeps, updates, trace>>

NoResp == [net |-> "none", http |-> 0]
Answer(resp) == [net |-> resp.net, http |-> resp.http]
NoBar == [n |-> 0, total |-> 0, postfix |-> 0]
Fetch(job_id, resp) == [job_id |-> job_id, body |-> resp.body]

NoCall == [job_type |-> "none"]

Init ==
    /\ pc = "idle"
    /\ op = "none"
    /\ arg = NoValue
    /\ job_or_batch = NoValue
    /\ timeout = 0
    /\ interval = 1
    /\ iterations_until_timeout = 0
    /\ ii = -1
    /\ jobs = <<>>
    /\ progress_bar = NoBar
    /\ result = NoResult
    /\ warned = <<>>
    /\ request = <<>>
    /\ refreshes = 0
    /\ sleeps = 0
    /\ updates = 0
    /\ fetched = <<>>
    /\ snapshot = NoValue
    /\ trace = <<>>
    /\ lastResp = NoResp
    /\ records = <<>>
    /\ call = NoCall

\* ---------------------------------------------------------------- refresh
\* len(batch) for a Batch, 1 for a Job (tqdm total)
Total(t) == IF t.kind = "Batch" THEN Len(t.jobs) ELSE 1

\* a refresh call as it ends: its local list, the requests it made with their
\* answers, and what it returns or raises
Run(js, fs, o) == [jobs |-> js, fetched |-> fs, out |-> o]

\* HyP3._refresh_job
refresh_job(job, resp) ==
    Run(<<>>, <<Fetch(job.job_id, resp)>>, get_job_by_id(job.job_id, resp))

\* the refreshed job is put at the front of the list
RECURSIVE refresh_batch_prepend_from(_, _, _, _)
refresh_batch_prepend_from(batch, resps, js, fs) ==
    IF Len(fs) = Len(batch.jobs) THEN Run(js, fs, Ok(Batch(js)))
    ELSE LET job == batch.jobs[Len(fs) + 1]
             resp == resps[Len(fs) + 1]
             r == get_job_by_id(job.job_id, resp)
             log == Append(fs, Fetch(job.job_id, resp))
         IN  IF r.kind = "return"
             THEN refresh_batch_prepend_from(batch, resps, <<r.value.jobs[1]>> \o js, log)
             ELSE Run(js, log, r)

refresh_batch_prepend(batch, resps) == refresh_batch_prepend_from(batch, resps, <<>>, <<>>)

\* a failed fetch ends the loop and the jobs refreshed so far are returned
RECURSIVE refresh_batch_partial_from(_, _, _, _)
refresh_batch_partial_from(batch, resps, js, fs) ==
    IF Len(fs) = Len(batch.jobs) THEN Run(js, fs, Ok(Batch(js)))
    ELSE LET job == batch.jobs[Len(fs) + 1]
             resp == resps[Len(fs) + 1]
             r == get_job_by_id(job.job_id, resp)
             log == Append(fs, Fetch(job.job_id, resp))
         IN  IF r.kind = "return"
             THEN refresh_batch_partial_from(batch, resps, Append(js, r.value.jobs[1]), log)
             ELSE Run(js, log, Ok(Batch(js)))

refresh_batch_partial(batch, resps) == refresh_batch_partial_from(batch, resps, <<>>, <<>>)

\* HyP3._refresh_batch from the point where js holds the jobs refreshed so far
\* and fs the requests made: `for job in batch.jobs: jobs.append(self.refresh(job))`
\* then `return Batch(jobs)`; an exception of self.refresh leaves the loop
RECURSIVE refresh_batch_from(_, _, _, _)
refresh_batch_from(batch, resps, js, fs) ==
    IF Len(fs) = Len(batch.jobs) THEN Run(js, fs, Ok(Batch(js)))
    ELSE LET job == batch.jobs[Len(fs) + 1]
             resp == resps[Len(fs) + 1]
             r == get_job_by_id(job.job_id, resp)
             log == Append(fs, Fetch(job.job_id, resp))
         IN  IF r.kind = "return"
             THEN refresh_batch_from(batch, resps, Append(js, r.value.jobs[1]), log)
             ELSE Run(js, log, r)

\* HyP3._refresh_batch
refresh_batch(batch, resps) == refresh_batch_from(batch, resps, <<>>, <<>>)

\* HyP3.refresh: dispatch on the type of the argument
Refresh(target, resps) ==
    IF target.kind = "Job" THEN refresh_job(target.jobs[1], resps[1])
    ELSE refresh_batch(target, resps)

\* the answers the service gives to the requests of one refresh of target: one
\* per job, up to and including the first request that fails
Succeeds(resp) == resp.net = "ok" /\ resp.http = 200 /\ resp.body \in Statuses

Answers(target) ==
    LET good == {resp \in JobResponses : Succeeds(resp)}
        runs == SeqsUpTo(good, Total(target))
    IN  {rs \in runs : Len(rs) = Total(target)}
        \cup {Append(rs, resp) : rs \in {q \in runs : Len(q) < Total(target)},
                                 resp \in JobResponses \ good}

LastAnswer(resps) == IF resps = <<>> THEN lastResp ELSE Answer(resps[Len(resps)])

Finish(r) ==
    /\ result' = r
    /\ pc' = IF r.kind = "return" THEN "returned" ELSE "raised"

\* HyP3.refresh called by the user
refresh(target, resps) ==
    /\ pc = "idle"
    /\ op' = "refresh"
    /\ arg' = target
    /\ job_or_batch' = target
    /\ LET r == Refresh(target, resps)
       IN  /\ jobs' = r.jobs
           /\ fetched' = r.fetched
           /\ snapshot' = r.out.value
           /\ Finish(r.out)
    /\ lastResp' = LastAnswer(resps)
    /\ UNCHANGED <<watchVars, warned, request, records, call>>

\* ---------------------------------------------------------------- watch
\* batch.complete() / job.complete() of watch's local
Complete(t) == IF t.kind = "Batch" THEN BatchComplete(t) ELSE JobComplete(t.jobs[1])

\* a target that is complete as passed in is returned at once, unrefreshed
watch_returns_complete_input(target, t, i) ==
    /\ pc = "idle"
    /\ op' = "watch"
    /\ arg' = target
    /\ job_or_batch' = target
    /\ timeout' = t
    /\ interval' = i
    /\ iterations_until_timeout' = Ceil(t, i)
    /\ progress_bar' = [n |-> 0, total |-> Total(target), postfix |-> t]
    /\ ii' = -1
    /\ refreshes' = 0
    /\ sleeps' = 0
    /\ updates' = 0
    /\ trace' = <<>>
    /\ jobs' = <<>>
    /\ fetched' = <<>>
    /\ snapshot' = NoValue
    /\ IF Complete(target)
       THEN /\ pc' = "returned"
            /\ result' = Ok(target)
       ELSE /\ pc' = "watch_for"
            /\ UNCHANGED result
    /\ UNCHANGED <<warned, request, lastResp, records, call>>

\* HyP3.watch called by the user: iterations and the tqdm bar are set up
watch(target, t, i) ==
    /\ pc = "idle"
    /\ op' = "watch"
    /\ arg' = target
    /\ job_or_batch' = target
    /\ timeout' = t
    /\ interval' = i
    /\ iterations_until_timeout' = Ceil(t, i)
    /\ progress_bar' = [n |-> 0, total |-> Total(target), postfix |-> t]
    /\ ii' = -1
    /\ refreshes' = 0
    /\ sleeps' = 0
    /\ updates' = 0
    /\ trace' = <<>>
    /\ jobs' = <<>>
    /\ fetched' = <<>>
    /\ snapshot' = NoValue
    /\ pc' = "watch_for"
    /\ UNCHANGED <<result, warned, request, lastResp, records, call>>

\* the timeout error names the object the caller passed in
watch_for_stale ==
    /\ pc = "watch_for"
    /\ IF ii + 1 < iterations_until_timeout
       THEN /\ ii' = ii + 1
            /\ refreshes' = refreshes + 1
            /\ trace' = Append(trace, "refresh")
            /\ jobs' = <<>>
            /\ fetched' = <<>>
            /\ pc' = "refresh"
            /\ UNCHANGED result
       ELSE /\ result' = Raise(Exc(HyP3Error, "Timeout occurred while waiting for", "", arg))
            /\ pc' = "raised"
            /\ UNCHANGED <<ii, refreshes, trace, jobs, fetched>>
    /\ UNCHANGED <<op, arg, job_or_batch, timeout, interval, iterations_until_timeout,
                   progress_bar, sleeps, updates, warned, request, snapshot, lastResp, records, call>>

\* `for ii in range(iterations_until_timeout)`: the next iteration starts with
\* self.refresh(...), or the loop is exhausted and the timeout error is raised
watch_for ==
    /\ pc = "watch_for"
    /\ IF ii + 1 < iterations_until_timeout
       THEN /\ ii' = ii + 1
            /\ refreshes' = refreshes + 1
            /\ trace' = Append(trace, "refresh")
            /\ jobs' = <<>>
            /\ fetched' = <<>>
            /\ pc' = "refresh"
            /\ UNCHANGED result
       ELSE /\ result' = Raise(Exc(HyP3Error, "Timeout occurred while waiting for", "",
                                   job_or_batch))
            /\ pc' = "raised"
            /\ UNCHANGED <<ii, refreshes, trace, jobs, fetched>>
    /\ UNCHANGED <<op, arg, job_or_batch, timeout, interval, iterations_until_timeout,
                   progress_bar, sleeps, updates, warned, request, snapshot, lastResp, records, call>>

\* watch catches the exception of a refresh and goes on to its next iteration
watch_refresh_swallows(resps) ==
    /\ pc = "refresh"
    /\ LET r == Refresh(job_or_batch, resps)
       IN  /\ jobs' = r.jobs
           /\ fetched' = r.fetched
           /\ IF r.out.kind = "return"
              THEN /\ job_or_batch' = r.out.value
                   /\ snapshot' = r.out.value
                   /\ pc' = "watch_progress"
              ELSE /\ pc' = "watch_for"
                   /\ UNCHANGED <<job_or_batch, snapshot>>
           /\ UNCHANGED result
    /\ lastResp' = LastAnswer(resps)
    /\ UNCHANGED <<op, arg, watchVars, warned, request, records, call>>

\* the refreshed statuses are written into the object the caller passed in
watch_refresh_in_place(resps) ==
    /\ pc = "refresh"
    /\ LET r == Refresh(job_or_batch, resps)
       IN  /\ jobs' = r.jobs
           /\ fetched' = r.fetched
           /\ IF r.out.kind = "return"
              THEN /\ job_or_batch' = r.out.value
                   /\ snapshot' = r.out.value
                   /\ arg' = r.out.value
                   /\ pc' = "watch_progress"
                   /\ UNCHANGED result
              ELSE /\ result' = r.out
                   /\ pc' = "raised"
                   /\ job_or_batch' = NoValue
                   /\ snapshot' = NoValue
                   /\ UNCHANGED arg
    /\ lastResp' = LastAnswer(resps)
    /\ UNCHANGED <<op, watchVars, warned, request, records, call>>

\* `batch = self.refresh(batch)`: the local is rebound to the value returned;
\* there is no handler, so an exception of refresh leaves watch, whose local
\* goes with its frame
watch_refresh(resps) ==
    /\ pc = "refresh"
    /\ LET r == Refresh(job_or_batch, resps)
       IN  /\ jobs' = r.jobs
           /\ fetched' = r.fetched
           /\ IF r.out.kind = "return"
              THEN /\ job_or_batch' = r.out.value
                   /\ snapshot' = r.out.value
                   /\ pc' = "watch_progress"
                   /\ UNCHANGED result
              ELSE /\ result' = r.out
                   /\ pc' = "raised"
                   /\ job_or_batch' = NoValue
                   /\ snapshot' = NoValue
    /\ lastResp' = LastAnswer(resps)
    /\ UNCHANGED <<op, arg, watchVars, warned, request, records, call>>

\* only SUCCEEDED jobs are counted as complete
watch_batch_progress_succeeded_only ==
    /\ pc = "watch_progress"
    /\ job_or_batch.kind = "Batch"
    /\ progress_bar' = [progress_bar EXCEPT !.postfix = timeout - ii * interval,
                                            !.n = CountStatus(job_or_batch, "SUCCEEDED")]
    /\ updates' = updates + 1
    /\ pc' = "watch_check"
    /\ UNCHANGED <<op, arg, job_or_batch, timeout, interval, iterations_until_timeout, ii,
                   jobs, result, warned, request, refreshes, sleeps, fetched, snapshot,
                   trace, lastResp, records, call>>

\* _watch_batch: counts, postfix, progress_bar.n = complete, update(0)
watch_batch_progress ==
    /\ pc = "watch_progress"
    /\ job_or_batch.kind = "Batch"
    /\ LET complete == CountStatus(job_or_batch, "SUCCEEDED")
                       + CountStatus(job_or_batch, "FAILED")
       IN  progress_bar' = [progress_bar EXCEPT !.postfix = timeout - ii * interval,
                                                !.n = complete]
    /\ updates' = updates + 1
    /\ pc' = "watch_check"
    /\ UNCHANGED <<op, arg, job_or_batch, timeout, interval, iterations_until_timeout, ii,
                   jobs, result, warned, request, refreshes, sleeps, fetched, snapshot,
                   trace, lastResp, records, call>>

\* the time left is taken after the wait of the iteration
watch_job_progress_after_wait ==
    /\ pc = "watch_progress"
    /\ job_or_batch.kind = "Job"
    /\ progress_bar' =
         [progress_bar EXCEPT !.postfix = timeout - (ii + 1) * interval,
                              !.n = @ + (IF JobComplete(job_or_batch.jobs[1]) THEN 1 ELSE 0)]
    /\ updates' = updates + 1
    /\ pc' = "watch_check"
    /\ UNCHANGED <<op, arg, job_or_batch, timeout, interval, iterations_until_timeout, ii,
                   jobs, result, warned, request, refreshes, sleeps, fetched, snapshot,
                   trace, lastResp, records, call>>

\* _watch_job: postfix, update(int(job.complete())) where update is n += value
watch_job_progress ==
    /\ pc = "watch_progress"
    /\ job_or_batch.kind = "Job"
    /\ progress_bar' =
         [progress_bar EXCEPT !.postfix = timeout - ii * interval,
                              !.n = @ + (IF JobComplete(job_or_batch.jobs[1]) THEN 1 ELSE 0)]
    /\ updates' = updates + 1
    /\ pc' = "watch_check"
    /\ UNCHANGED <<op, arg, job_or_batch, timeout, interval, iterations_until_timeout, ii,
                   jobs, result, warned, request, refreshes, sleeps, fetched, snapshot,
                   trace, lastResp, records, call>>

\* the completeness test is dropped: the first refreshed snapshot is returned
watch_check_always_returns ==
    /\ pc = "watch_check"
    /\ result' = Ok(job_or_batch)
    /\ pc' = "returned"
    /\ UNCHANGED <<op, arg, job_or_batch, timeout, interval, iterations_until_timeout, ii,
                   jobs, progress_bar, warned, request, refreshes, sleeps, updates,
                   fetched, snapshot, trace, lastResp, records, call>>

\* the sleep comes before the test, so a wait follows the completing refresh
watch_check_sleeps_first ==
    /\ pc = "watch_check"
    /\ sleeps' = sleeps + 1
    /\ trace' = Append(trace, "sleep")
    /\ IF Complete(job_or_batch)
       THEN /\ result' = Ok(job_or_batch)
            /\ pc' = "returned"
       ELSE /\ pc' = "watch_for"
            /\ UNCHANGED result
    /\ UNCHANGED <<op, arg, job_or_batch, timeout, interval, iterations_until_timeout, ii,
                   jobs, progress_bar, warned, request, refreshes, updates, fetched,
                   snapshot, lastResp, records, call>>

\* no wait after the refresh of the last iteration
watch_check_skips_last_sleep ==
    /\ pc = "watch_check"
    /\ IF Complete(job_or_batch)
       THEN /\ result' = Ok(job_or_batch)
            /\ pc' = "returned"
            /\ UNCHANGED <<sleeps, trace>>
       ELSE /\ IF ii + 1 < iterations_until_timeout
               THEN /\ sleeps' = sleeps + 1
                    /\ trace' = Append(trace, "sleep")
               ELSE UNCHANGED <<sleeps, trace>>
            /\ pc' = "watch_for"
            /\ UNCHANGED result
    /\ UNCHANGED <<op, arg, job_or_batch, timeout, interval, iterations_until_timeout, ii,
                   jobs, progress_bar, warned, request, refreshes, updates, fetched,
                   snapshot, lastResp, records, call>>

\* `if batch.complete(): return batch` else `time.sleep(interval)`
watch_check ==
    /\ pc = "watch_check"
    /\ IF Complete(job_or_batch)
       THEN /\ result' = Ok(job_or_batch)
            /\ pc' = "returned"
            /\ UNCHANGED <<sleeps, trace>>
       ELSE /\ sleeps' = sleeps + 1
            /\ trace' = Append(trace, "sleep")
            /\ pc' = "watch_for"
            /\ UNCHANGED result
    /\ UNCHANGED <<op, arg, job_or_batch, timeout, interval, iterations_until_timeout, ii,
                   jobs, progress_bar, warned, request, refreshes, updates, fetched,
                   snapshot, lastResp, records, call>>

\* ---------------------------------------------------------------- one-request calls
\* HyP3.get_job_by_id called by the user
get_job(job_id, resp) ==
    /\ pc = "idle"
    /\ op' = "get_job_by_id"
    /\ Finish(get_job_by_id(job_id, resp))
    /\ fetched' = <<Fetch(job_id, resp)>>
    /\ lastResp' = Answer(resp)
    /\ UNCHANGED <<arg, job_or_batch, jobs, watchVars, warned, request, snapshot, records,
                   call>>

\* find_jobs without the UserWarning for an empty result
find_jobs_silent(resp) ==
    /\ pc = "idle"
    /\ op' = "find_jobs"
    /\ IF resp.net = "ConnectionError"
       THEN /\ Finish(Raise(Exc("ConnectionError", "", "", NoValue)))
            /\ UNCHANGED warned
       ELSE IF resp.http # 200
       THEN /\ Finish(Raise(Exc(HyP3Error, "Error while trying to query", "", NoValue)))
            /\ UNCHANGED warned
       ELSE /\ warned' = warned
            /\ Finish(Ok(Batch(resp.records)))
    /\ records' = resp.records
    /\ lastResp' = Answer(resp)
    /\ UNCHANGED <<arg, job_or_batch, jobs, watchVars, request, fetched, snapshot, call>>

\* HyP3.find_jobs: session.get is outside the try, which catches HTTPError only
find_jobs(resp) ==
    /\ pc = "idle"
    /\ op' = "find_jobs"
    /\ IF resp.net = "ConnectionError"
       THEN /\ Finish(Raise(Exc("ConnectionError", "", "", NoValue)))
            /\ UNCHANGED warned
       ELSE IF resp.http # 200
       THEN /\ Finish(Raise(Exc(HyP3Error, "Error while trying to query", "", NoValue)))
            /\ UNCHANGED warned
       ELSE /\ warned' = IF resp.records = <<>> THEN Append(warned, "Found zero jobs")
                         ELSE warned
            /\ Finish(Ok(Batch(resp.records)))
    /\ records' = resp.records
    /\ lastResp' = Answer(resp)
    /\ UNCHANGED <<arg, job_or_batch, jobs, watchVars, request, fetched, snapshot, call>>

\* Batch.__add__ with a Job: a new Batch with the job appended
BatchAdd(b, j) == Batch(Append(b.jobs, j))

\* an accumulation that skips a record whose job_id the batch already holds
RECURSIVE AccumulateDistinct(_, _)
AccumulateDistinct(b, recs) ==
    IF recs = <<>> THEN b
    ELSE IF \E k \in 1..Len(b.jobs) : b.jobs[k].job_id = Head(recs).job_id
    THEN AccumulateDistinct(b, Tail(recs))
    ELSE AccumulateDistinct(BatchAdd(b, Head(recs)), Tail(recs))

\* `batch = Batch(); for job in response.json()['jobs']: batch += Job.from_dict(job)`
RECURSIVE Accumulate(_, _)
Accumulate(b, recs) ==
    IF recs = <<>> THEN b
    ELSE Accumulate(BatchAdd(b, Head(recs)), Tail(recs))

\* ---------------------------------------------------------------- job dictionaries
\* "None" stands for Python's None; a dict is the sequence of its items in
\* insertion order
Param(k, v) == [key |-> k, value |-> v]

\* 'name' is set only `if name is not None`
NameItem(name) == IF name = "None" THEN <<>> ELSE <<name>>

\* {'job_parameters': {'granules': [...], **job_parameters}, 'job_type': ...}
JobDict(type, granules, job_parameters, name) ==
    [job_parameters |-> [granules |-> granules, items |-> job_parameters],
     job_type |-> type, name |-> NameItem(name)]

\* a prepared job dictionary as a returned value
DictValue(d) == [kind |-> "dict", jobs |-> <<>>, job_dict |-> d]

ValueError == Exc("ValueError", "values to unpack (expected 2)", "", NoValue)

\* `for k, v in job_parameters: if v is None: del job_parameters[k]`: the loop
\* runs over the keys of the dict and unpacks each key, a string, into k, v;
\* that raises ValueError unless the key has exactly two characters, and then
\* v is a character, never None, so nothing is deleted
RECURSIVE PruneFrom(_, _)
PruneFrom(job_parameters, i) ==
    IF i > Len(job_parameters) THEN [raised |-> FALSE, job_parameters |-> job_parameters]
    ELSE IF Len(job_parameters[i].key) # 2
    THEN [raised |-> TRUE, job_parameters |-> job_parameters]
    ELSE PruneFrom(job_parameters, i + 1)

Prune(job_parameters) == PruneFrom(job_parameters, 1)

\* HyP3.prepare_autorift_job
prepare_autorift_job(granule1, granule2, name) ==
    Ok(DictValue(JobDict("AUTORIFT", <<granule1, granule2>>, <<>>, name)))

\* the dict literal of prepare_rtc_job, keys as spelled in the source
RtcParameters(opts, kwargs) ==
    << Param("dem_matching", opts.dem_matching),
       Param("include_dem", opts.include_dem),
       Param("include-inc_map", opts.include_inc_map),
       Param("include_scatteering_area", opts.include_scattering_area),
       Param("radiometry", opts.radiometry),
       Param("resolution", opts.resolution),
       Param("scale", opts.scale),
       Param("speckle_filter", opts.speckle_filter) >> \o kwargs

\* HyP3.prepare_rtc_job
prepare_rtc_job(granule, name, opts, kwargs) ==
    LET pruned == Prune(RtcParameters(opts, kwargs))
    IN  IF pruned.raised THEN Raise(ValueError)
        ELSE Ok(DictValue(JobDict("RTC_GAMMA", <<granule>>, pruned.job_parameters, name)))

\* the dict literal of prepare_insar_job
InsarParameters(opts, kwargs) ==
    << Param("include_look_vectors", opts.include_look_vectors),
       Param("include_los_displacement", opts.include_los_displacement),
       Param("looks", opts.looks) >> \o kwargs

\* HyP3.prepare_insar_job
prepare_insar_job(granule1, granule2, name, opts, kwargs) ==
    LET pruned == Prune(InsarParameters(opts, kwargs))
    IN  IF pruned.raised THEN Raise(ValueError)
        ELSE Ok(DictValue(JobDict("INSAR_GAMMA", <<granule1, granule2>>,
                                  pruned.job_parameters, name)))

\* the defaults of prepare_insar_job's optional parameters
InsarDefaults ==
    [include_look_vectors |-> "None", include_los_displacement |-> "None", looks |-> "None"]

\* arguments of a prepare_* / submit_* call
Granules == {"g1", "g2"}
Names == {"None", "n1"}
Kwargs == {<<>>, <<Param("extra", "None")>>, <<Param("extra", "v")>>}
Flag == {"None", "True"}

AutoriftCalls ==
    {[job_type |-> "AUTORIFT", granules |-> <<g1, g2>>, name |-> n] :
        g1 \in Granules, g2 \in Granules, n \in Names}

RtcOpts ==
    [dem_matching : Flag, include_dem : Flag, include_inc_map : Flag,
     include_scattering_area : Flag, radiometry : {"None", "gamma0"},
     resolution : {"None", "30"}, scale : {"None", "power"}, speckle_filter : Flag]

RtcCalls ==
    {[job_type |-> "RTC_GAMMA", granules |-> <<g>>, name |-> n, opts |-> o, kwargs |-> kw] :
        g \in {"g1"}, n \in Names, o \in RtcOpts, kw \in Kwargs}

InsarOpts ==
    [include_look_vectors : Flag, include_los_displacement : Flag, looks : {"None", "20x4"}]

InsarCalls ==
    {[job_type |-> "INSAR_GAMMA", granules |-> <<"g1", "g2">>, name |-> n, opts |-> o,
      kwargs |-> kw] : n \in Names, o \in InsarOpts, kw \in Kwargs}

\* the classmethod named by c.job_type applied to the arguments c
Prepare(c) ==
    IF c.job_type = "AUTORIFT" THEN prepare_autorift_job(c.granules[1], c.granules[2], c.name)
    ELSE IF c.job_type = "RTC_GAMMA"
    THEN prepare_rtc_job(c.granules[1], c.name, c.opts, c.kwargs)
    ELSE prepare_insar_job(c.granules[1], c.granules[2], c.name, c.opts, c.kwargs)

PrepareName(c) ==
    IF c.job_type = "AUTORIFT" THEN "prepare_autorift_job"
    ELSE IF c.job_type = "RTC_GAMMA" THEN "prepare_rtc_job" ELSE "prepare_insar_job"

\* HyP3.prepare_autorift_job / prepare_rtc_job / prepare_insar_job called by the user
prepare_job(c) ==
    /\ pc = "idle"
    /\ op' = PrepareName(c)
    /\ call' = c
    /\ Finish(Prepare(c))
    /\ UNCHANGED <<arg, job_or_batch, jobs, watchVars, warned, request, fetched, snapshot,
                   lastResp, records>>

\* ---------------------------------------------------------------- submission
\* a prepared job dictionary, or a list of them
PreparedDicts ==
    {JobDict("AUTORIFT", <<"g1", "g2">>, <<>>, "None"),
     JobDict("AUTORIFT", <<"g2", "g1">>, <<>>, "n1")}

\* the argument prepared_jobs: isdict is isinstance(prepared_jobs, dict)
NoDict == JobDict("none", <<>>, <<>>, "None")
PreparedDict(d) == [isdict |-> TRUE, dict |-> d, list |-> <<>>]
PreparedList(ds) == [isdict |-> FALSE, dict |-> NoDict, list |-> ds]

PreparedJobs ==
    {PreparedDict(d) : d \in PreparedDicts}
    \cup {PreparedList(ds) : ds \in SeqsUpTo(PreparedDicts, MaxRecords)}

\* a single dict is wrapped in a list, a list is sent as it is
Payload(prepared_jobs) ==
    IF prepared_jobs.isdict THEN <<prepared_jobs.dict>> ELSE prepared_jobs.list

\* the body of submit_prepared_jobs: the POST, raise_for_status, and the Batch
\* built from the response; session.post is outside the try, which catches
\* HTTPError only
Submit(prepared_jobs, resp) ==
    /\ request' = Append(request, Payload(prepared_jobs))
    /\ IF resp.net = "ConnectionError"
       THEN Finish(Raise(Exc("ConnectionError", "", "", NoValue)))
       ELSE IF resp.http # 200
       THEN Finish(Raise(Exc(HyP3Error, "HTTPError", "", NoValue)))
       ELSE Finish(Ok(Accumulate(Batch(<<>>), resp.records)))
    /\ records' = resp.records
    /\ lastResp' = Answer(resp)

\* HyP3.submit_prepared_jobs called by the user
submit_prepared_jobs(prepared_jobs, resp) ==
    /\ pc = "idle"
    /\ op' = "submit_prepared_jobs"
    /\ call' = prepared_jobs
    /\ Submit(prepared_jobs, resp)
    /\ UNCHANGED <<arg, job_or_batch, jobs, watchVars, warned, fetched, snapshot>>

\* submit_*_job: the dict of the prepare call is submitted; an exception of the
\* prepare call leaves before any request is made
SubmitPrepared(prepared, resp) ==
    IF prepared.kind = "return"
    THEN Submit(PreparedDict(prepared.value.job_dict), resp)
    ELSE /\ Finish(prepared)
         /\ UNCHANGED <<request, records, lastResp>>

\* HyP3.submit_autorift_job
submit_autorift_job(c, resp) ==
    /\ pc = "idle"
    /\ op' = "submit_autorift_job"
    /\ call' = c
    /\ SubmitPrepared(prepare_autorift_job(c.granules[1], c.granules[2], c.name), resp)
    /\ UNCHANGED <<arg, job_or_batch, jobs, watchVars, warned, fetched, snapshot>>

\* HyP3.submit_rtc_job: every argument is handed to prepare_rtc_job
submit_rtc_job(c, resp) ==
    /\ pc = "idle"
    /\ op' = "submit_rtc_job"
    /\ call' = c
    /\ SubmitPrepared(prepare_rtc_job(c.granules[1], c.name, c.opts, c.kwargs), resp)
    /\ UNCHANGED <<arg, job_or_batch, jobs, watchVars, warned, fetched, snapshot>>

\* HyP3.submit_insar_job: only granule1, granule2, name and **kwargs are handed
\* to prepare_insar_job, which takes its defaults for the rest
submit_insar_job(c, resp) ==
    /\ pc = "idle"
    /\ op' = "submit_insar_job"
    /\ call' = c
    /\ SubmitPrepared(prepare_insar_job(c.granules[1], c.granules[2], c.name,
                                        InsarDefaults, c.kwargs), resp)
    /\ UNCHANGED <<arg, job_or_batch, jobs, watchVars, warned, fetched, snapshot>>

\* HyP3.my_info: the request is inside the try, but only HTTPError is caught
my_info(resp) ==
    /\ pc = "idle"
    /\ op' = "my_info"
    /\ IF resp.net = "ConnectionError"
       THEN Finish(Raise(Exc("ConnectionError", "", "", NoValue)))
       ELSE IF resp.http # 200
       THEN Finish(Raise(Exc(HyP3Error, "Unable to get user information from API", "",
                             NoValue)))
       ELSE Finish(Ok(UserInfo))
    /\ lastResp' = Answer(resp)
    /\ UNCHANGED <<arg, job_or_batch, jobs, watchVars, warned, request, fetched, snapshot,
                   records, call>>

InfoResponses ==
    {[net |-> "ConnectionError", http |-> 0]}
    \cup {[net |-> "ok", http |-> h] : h \in HttpCodes}

\* ---------------------------------------------------------------- system
Timeouts == 0..MaxTimeout
Intervals == 1..MaxInterval

\* the service answers the requests of the refresh that watch is waiting for
WatchRefresh == pc = "refresh" /\ \E resps \in Answers(job_or_batch) : watch_refresh(resps)

Next ==
    \/ \E target \in CallerTargets, t \in Timeouts, i \in Intervals : watch(target, t, i)
    \/ watch_for
    \/ watch_batch_progress
    \/ watch_job_progress
    \/ watch_check
    \/ WatchRefresh
    \/ pc = "idle" /\ \E target \in CallerTargets :
                        \E resps \in Answers(target) : refresh(target, resps)
    \/ \E job_id \in JobIds, resp \in JobResponses : get_job(job_id, resp)
    \/ \E resp \in ListResponses : find_jobs(resp)
    \/ pc = "idle" /\ \E p \in PreparedJobs, resp \in ListResponses :
                        submit_prepared_jobs(p, resp)
    \/ pc = "idle" /\ \E c \in AutoriftCalls \cup RtcCalls \cup InsarCalls : prepare_job(c)
    \/ pc = "idle" /\ \E c \in AutoriftCalls, resp \in ListResponses :
                        submit_autorift_job(c, resp)
    \/ pc = "idle" /\ \E c \in RtcCalls, resp \in ListResponses : submit_rtc_job(c, resp)
    \/ pc = "idle" /\ \E c \in InsarCalls, resp \in ListResponses : submit_insar_job(c, resp)
    \/ \E resp \in InfoResponses : my_info(resp)

Spec == Init /\ [][Next]_vars

\* ---------------------------------------------------------------- properties
Last(q) == q[Len(q)]

\* the last request of the running refresh failed (transport, HTTP or parsing)
FetchFailed == fetched # <<>> /\ Last(fetched).body \notin Statuses

\* watch ended by an exception that is not a failure of a refresh
Exhausted == op = "watch" /\ pc = "raised" /\ ~FetchFailed

\* number of jobs of t in a terminal state
Terminal(t) == Cardinality({k \in 1..Len(t.jobs) : t.jobs[k].status_code \in {"SUCCEEDED", "FAILED"}})

AllTerminal(t) == \A k \in 1..Len(t.jobs) : t.jobs[k].status_code \in {"SUCCEEDED", "FAILED"}

\* C1: when watch returns, the value is the snapshot of the most recent refresh
\* and every job in it is SUCCEEDED or FAILED; every snapshot after which watch
\* went on was incomplete, and no refresh or wait follows the completing refresh.
C1_WatchReturnsFirstComplete ==
    /\ (op = "watch" /\ pc = "returned") =>
          /\ result.kind = "return"
          /\ result.value = snapshot
          /\ AllTerminal(result.value)
          /\ result.value.kind = arg.kind
          /\ refreshes = ii + 1
          /\ Last(trace) = "refresh"
    /\ (op = "watch" /\ pc = "watch_for" /\ refreshes > 0) =>
          /\ ~AllTerminal(snapshot)
          /\ Last(trace) = "sleep"

C1_Witness ==
    /\ op = "watch" /\ pc = "returned"
    /\ arg.kind = "Batch" /\ Len(arg.jobs) = 2
    /\ refreshes = 2
    /\ result.value.jobs[1].status_code = "FAILED"

\* C2 as stated: on exhaustion of the iterations the error is of a class of
\* its own, different from the class of service errors, and carries the
\* snapshot of the final refresh.
C2_TimeoutErrorIsDistinct ==
    Exhausted =>
        /\ result.kind = "raise"
        /\ result.exc.cls # HyP3Error
        /\ result.exc.subject = job_or_batch

\* C2 amended: on exhaustion of the iterations watch raises HyP3Error (the
\* class of service errors) with the text "Timeout occurred while waiting for"
\* followed by the Job/Batch of the final refresh (the caller's object when no
\* iteration was allowed); that snapshot is incomplete.
C2_TimeoutIsHyP3ErrorNamingLastSnapshot ==
    Exhausted =>
        /\ result.kind = "raise"
        /\ result.value = NoValue
        /\ result.exc.cls = HyP3Error
        /\ result.exc.text = "Timeout occurred while waiting for"
        /\ refreshes = iterations_until_timeout
        /\ IF refreshes > 0
           THEN result.exc.subject = snapshot /\ ~AllTerminal(snapshot)
           ELSE result.exc.subject = arg

C2_Witness ==
    /\ Exhausted
    /\ refreshes = 2
    /\ arg.kind = "Batch" /\ Len(arg.jobs) = 2
    /\ result.exc.subject # arg
    /\ Terminal(result.exc.subject) = 1

\* C3: watch makes at most ceil(timeout / interval) refreshes, exactly that
\* many when it ends by timeout (one when timeout = interval), and it ends.
C3_RefreshBound ==
    op = "watch" =>
        /\ refreshes >= 1 => (refreshes - 1) * interval < timeout
        /\ Exhausted => refreshes * interval >= timeout
        /\ (Exhausted /\ timeout = interval) => refreshes = 1

C3_WatchBounded ==
    /\ []C3_RefreshBound
    /\ (op = "watch") ~> (pc \in {"returned", "raised"})

C3_Witness ==
    /\ Exhausted
    /\ timeout = 3 /\ interval = 2
    /\ refreshes = 2

\* C4: refreshes and waits alternate, starting with a refresh; when watch
\* returns at the k-th refresh it has made k refreshes and k-1 waits and the
\* value is the k-th snapshot.
C4_RefreshesAndWaitsAlternate ==
    op = "watch" =>
        /\ \A k \in 1..Len(trace) : trace[k] = IF k % 2 = 1 THEN "refresh" ELSE "sleep"
        /\ refreshes = Cardinality({k \in 1..Len(trace) : trace[k] = "refresh"})
        /\ sleeps = Cardinality({k \in 1..Len(trace) : trace[k] = "sleep"})
        /\ pc = "returned" =>
              /\ refreshes >= 1
              /\ sleeps = refreshes - 1
              /\ Len(trace) = 2 * refreshes - 1
              /\ result.value = snapshot

C4_Witness ==
    /\ op = "watch" /\ pc = "returned"
    /\ arg.kind = "Job"
    /\ timeout = 2 /\ interval = 1
    /\ refreshes = 2 /\ sleeps = 1
    /\ result.value.jobs[1].status_code = "SUCCEEDED"

\* C5: each iteration emits one progress observation after the refresh and
\* before the completeness test: completed = number of terminal jobs of the
\* refreshed snapshot (0 or 1 for a Job), total = size of the target,
\* remaining = timeout - i * interval; completed <= total, with equality
\* exactly on the iteration that returns.
C5_ProgressObservation ==
    op = "watch" =>
        /\ pc \in {"refresh", "watch_progress"} => updates = refreshes - 1
        /\ pc \in {"watch_check", "returned"} => updates = refreshes
        /\ pc = "watch_for" => updates = refreshes
        /\ pc \in {"watch_check", "returned"} =>
              /\ progress_bar.total = (IF arg.kind = "Batch" THEN Len(arg.jobs) ELSE 1)
              /\ progress_bar.n = Terminal(snapshot)
              /\ progress_bar.postfix = timeout - (refreshes - 1) * interval
              /\ progress_bar.n <= progress_bar.total
        /\ pc = "returned" => progress_bar.n = progress_bar.total
        /\ (pc = "watch_for" /\ refreshes > 0) => progress_bar.n < progress_bar.total

C5_Witness ==
    /\ op = "watch" /\ pc = "watch_check"
    /\ arg.kind = "Batch" /\ Len(arg.jobs) = 2
    /\ ii = 1
    /\ progress_bar = [n |-> 1, total |-> 2, postfix |-> 2]

\* the last answer of the remote service was a transport or HTTP failure
ServiceFailed == lastResp.net = "ConnectionError" \/ (lastResp.net = "ok" /\ lastResp.http # 200)

\* C6: a Batch refresh asks for each contained job once, by its id and in
\* order, duplicates included, and returns a Batch whose k-th job is the
\* record fetched for the k-th id.
C6_BatchRefreshKeepsOrder ==
    /\ (arg.kind = "Batch" /\ ((op = "refresh" /\ pc = "returned")
                               \/ (op = "watch" /\ pc = "watch_progress"))) =>
          /\ snapshot.kind = "Batch"
          /\ op = "refresh" => result = Ok(snapshot)
          /\ Len(snapshot.jobs) = Len(arg.jobs)
          /\ Len(fetched) = Len(arg.jobs)
          /\ \A k \in 1..Len(arg.jobs) :
                /\ fetched[k].job_id = arg.jobs[k].job_id
                /\ snapshot.jobs[k] = [job_id |-> arg.jobs[k].job_id,
                                       status_code |-> fetched[k].body]

C6_Witness ==
    /\ op = "refresh" /\ pc = "returned"
    /\ arg.kind = "Batch" /\ Len(arg.jobs) = 2
    /\ arg.jobs[1].job_id = arg.jobs[2].job_id
    /\ result.value.jobs[1].status_code = "RUNNING"
    /\ result.value.jobs[2].status_code = "FAILED"

\* C7: when the fetch of one job of a Batch fails, the refresh ends there
\* with the HyP3Error of that fetch: nothing is returned, the jobs before it
\* were each fetched once and the failed one is not asked for again.
C7_BatchRefreshFailsWhole ==
    (op \in {"refresh", "watch"} /\ arg.kind = "Batch" /\ fetched # <<>> /\ ServiceFailed) =>
        /\ pc = "raised"
        /\ result = Raise(Exc(HyP3Error, "Unable to get job by ID",
                              arg.jobs[Len(fetched)].job_id, NoValue))
        /\ Len(fetched) = Len(jobs) + 1
        /\ \A k \in 1..Len(fetched) :
              /\ fetched[k].job_id = arg.jobs[k].job_id
              /\ k < Len(fetched) => fetched[k].body \in Statuses

C7_Witness ==
    /\ op = "refresh" /\ pc = "raised"
    /\ arg.kind = "Batch" /\ Len(arg.jobs) = 2
    /\ Len(fetched) = 2 /\ Len(jobs) = 1
    /\ lastResp = [net |-> "ok", http |-> 500]

\* C8: an error of a refresh inside watch ends watch at that iteration with
\* that error: no progress update, no wait, no further refresh and no timeout
\* error, whatever is left of the iterations.
C8_WatchPropagatesRefreshError ==
    (op = "watch" /\ FetchFailed) =>
        /\ pc = "raised"
        /\ result.kind = "raise"
        /\ result.value = NoValue
        /\ result.exc = (IF Last(fetched).body = "malformed"
                         THEN Exc("ParseError", "", "", NoValue)
                         ELSE Exc(HyP3Error, "Unable to get job by ID",
                                  Last(fetched).job_id, NoValue))
        /\ Last(trace) = "refresh"
        /\ refreshes = ii + 1
        /\ sleeps = ii
        /\ updates = ii

C8_Witness ==
    /\ op = "watch" /\ pc = "raised" /\ FetchFailed
    /\ refreshes = 1 /\ iterations_until_timeout = 3
    /\ Last(fetched).body = "malformed"

\* C9: a transport or HTTP failure of the request made by find_jobs,
\* get_job_by_id, submit_prepared_jobs or my_info reaches the caller as
\* HyP3Error and nothing is returned.
C9_TransportFailureIsHyP3Error ==
    (op \in {"find_jobs", "get_job_by_id", "submit_prepared_jobs", "my_info"} /\ ServiceFailed) =>
        /\ pc = "raised"
        /\ result.kind = "raise"
        /\ result.value = NoValue
        /\ result.exc.cls = HyP3Error

\* C10 as stated: the error raised for a job the service reports as not found
\* differs from the error raised for the other failures of the fetch.
C10_NotFoundIsDistinct ==
    (op = "get_job_by_id" /\ lastResp = [net |-> "ok", http |-> 404]) =>
        /\ pc = "raised"
        /\ result.kind = "raise"
        /\ result.exc # Exc(HyP3Error, "Unable to get job by ID", fetched[1].job_id, NoValue)

\* C10 amended: get_job_by_id on an id the service reports as not found raises
\* HyP3Error "Unable to get job by ID <id>", the error it raises for every
\* other transport or HTTP failure of the fetch; no Job is returned.
C10_NotFoundIsHyP3Error ==
    (op = "get_job_by_id" /\ ServiceFailed) =>
        /\ pc = "raised"
        /\ result = Raise(Exc(HyP3Error, "Unable to get job by ID", fetched[1].job_id, NoValue))

C10_Witness ==
    /\ op = "get_job_by_id" /\ pc = "raised"
    /\ lastResp = [net |-> "ok", http |-> 404]
    /\ fetched[1].job_id = "j2"

Answered200 == lastResp = [net |-> "ok", http |-> 200]

\* C11: a job search answered with 200 returns, without raising, the Batch of
\* the records in the order of the response; the empty-result warning is
\* emitted exactly when there are no records, and at most once.
C11_FindJobsWarnsIffEmpty ==
    (op = "find_jobs" /\ Answered200) =>
        /\ pc = "returned"
        /\ result.kind = "return"
        /\ result.value.kind = "Batch"
        /\ result.value.jobs = records
        /\ warned = IF records = <<>> THEN <<"Found zero jobs">> ELSE <<>>

C11_Witness ==
    /\ op = "find_jobs" /\ Answered200
    /\ records = <<>>
    /\ warned = <<"Found zero jobs">>
    /\ result = Ok(Batch(<<>>))

\* C12: submit_prepared_jobs makes one POST whose payload is the given list, or
\* the one-element list of the given dict; answered with 200 it returns a Batch
\* with one Job per record of the response, in response order, repeated ids
\* included.
C12_SubmitKeepsResponseOrder ==
    (op = "submit_prepared_jobs") =>
        /\ Len(request) = 1
        /\ request[1] = IF call.isdict THEN <<call.dict>> ELSE call.list
        /\ Answered200 =>
              /\ pc = "returned"
              /\ result.kind = "return"
              /\ result.value.kind = "Batch"
              /\ Len(result.value.jobs) = Len(records)
              /\ \A k \in 1..Len(records) : result.value.jobs[k] = records[k]

C12_Witness ==
    /\ op = "submit_prepared_jobs" /\ pc = "returned"
    /\ call.isdict
    /\ Len(request[1]) = 1
    /\ Len(records) = 2
    /\ records[1].job_id = records[2].job_id
    /\ Len(result.value.jobs) = 2

\* the items of a dict whose value is not None
WithoutNone(job_parameters) == SelectSeq(job_parameters, LAMBDA item : item.value # "None")

\* every optional and extra keyword parameter of the call c
AllParameters(c) ==
    IF c.job_type = "RTC_GAMMA" THEN RtcParameters(c.opts, c.kwargs)
    ELSE IF c.job_type = "INSAR_GAMMA" THEN InsarParameters(c.opts, c.kwargs)
    ELSE <<>>

\* the job dictionary with the granules, the parameters that are not None, and
\* the name if one is given
Canonical(c) == JobDict(c.job_type, c.granules, WithoutNone(AllParameters(c)), c.name)

\* C13: prepare_rtc_job and prepare_insar_job return, for every combination of
\* optional arguments, the job dictionary with the type tag, the granules in
\* argument order, exactly the parameters that are not None, and the name iff
\* one was given; they raise nothing and make no request.
C13_PrepareReturnsCanonicalSpec ==
    (op \in {"prepare_rtc_job", "prepare_insar_job"}) =>
        /\ pc = "returned"
        /\ result.kind = "return"
        /\ result.value.job_dict = Canonical(call)
        /\ request = <<>>

\* C14: submit_autorift_job, submit_rtc_job and submit_insar_job post the
\* one-element list of the dictionary their prepare method returns for all the
\* arguments of the call, so a looks that is not None is among the posted
\* job_parameters.
C14_SubmitPostsPreparedSpec ==
    (op \in {"submit_autorift_job", "submit_rtc_job", "submit_insar_job"}) =>
        /\ Prepare(call).kind = "return"
        /\ Len(request) = 1
        /\ request[1] = <<Prepare(call).value.job_dict>>
        /\ (op = "submit_insar_job" /\ call.opts.looks # "None") =>
              \E k \in 1..Len(request[1][1].job_parameters.items) :
                  request[1][1].job_parameters.items[k] = Param("looks", call.opts.looks)

\* C15: while watch or refresh runs, and after it has ended, the object the
\* caller passed in holds the jobs, in the order and with the statuses, it was
\* passed in with.
C15_CallerObjectUnchanged == [][pc # "idle" => arg' = arg]_vars

C15_Witness ==
    /\ op = "watch" /\ pc = "returned"
    /\ arg.kind = "Batch" /\ Len(arg.jobs) = 2
    /\ arg.jobs[1].status_code = "PENDING"
    /\ result.value.jobs[1].status_code = "SUCCEEDED"

\* C16: watch of an empty Batch with timeout > 0 never raises, fetches no job
\* and never waits; it returns the empty Batch in its first iteration.
C16_EmptyBatchReturnsAtOnce ==
    (op = "watch" /\ arg = Batch(<<>>) /\ timeout > 0) =>
        /\ pc # "raised"
        /\ fetched = <<>>
        /\ sleeps = 0
        /\ refreshes <= 1
        /\ pc = "returned" => (result = Ok(Batch(<<>>)) /\ ii = 0 /\ refreshes = 1)

C16_Witness ==
    /\ op = "watch" /\ arg = Batch(<<>>) /\ timeout = 1 /\ interval = 2
    /\ pc = "returned"
    /\ result = Ok(Batch(<<>>))
    /\ sleeps = 0

\* C17: watch returns only after at least one refresh; with timeout = 0 it
\* makes no refresh and no wait and raises the timeout error, which names the
\* object the caller passed in, complete or not.
C17_NoReturnWithoutRefresh ==
    /\ (op = "watch" /\ pc = "returned") => refreshes >= 1
    /\ (op = "watch" /\ timeout = 0) =>
          /\ pc \in {"watch_for", "raised"}
          /\ refreshes = 0
          /\ sleeps = 0
          /\ fetched = <<>>
          /\ pc = "raised" =>
                /\ result.exc.cls = HyP3Error
                /\ result.exc.text = "Timeout occurred while waiting for"
                /\ result.exc.subject = arg

C17_Witness ==
    /\ op = "watch" /\ timeout = 0 /\ pc = "raised"
    /\ arg.kind = "Job"
    /\ arg.jobs[1].status_code = "SUCCEEDED"
    /\ result.exc.subject = arg
    /\ refreshes = 0

\* C18: when watch times out it has made as many waits as refreshes, the last
\* step before the error is a wait, and the number of waits n is the ceiling of
\* timeout / interval: n * interval >= timeout > (n - 1) * interval.
C18_TimeoutAfterFinalWait ==
    Exhausted =>
        /\ sleeps = refreshes
        /\ sleeps = iterations_until_timeout
        /\ sleeps * interval >= timeout
        /\ sleeps > 0 => ((sleeps - 1) * interval < timeout /\ Last(trace) = "sleep")

C18_Witness ==
    /\ Exhausted
    /\ timeout = 3 /\ interval = 2
    /\ sleeps = 2
    /\ trace = <<"refresh", "sleep", "refresh", "sleep">>

\* C19: the time left shown in an iteration of watch is positive and at most
\* timeout, and from one iteration to the next it goes down by interval.
C19_RemainingTime ==
    /\ []((op = "watch" /\ updates >= 1) =>
            /\ 0 < progress_bar.postfix
            /\ progress_bar.postfix <= timeout
            /\ progress_bar.postfix = timeout - (updates - 1) * interval)
    /\ [][(updates >= 1 /\ updates' = updates + 1) =>
            progress_bar'.postfix = progress_bar.postfix - interval]_vars

C19_Witness ==
    /\ op = "watch" /\ pc = "watch_check"
    /\ timeout = 3 /\ interval = 2
    /\ updates = 2
    /\ progress_bar.postfix = 1

\* the calling thread runs on: every remote call and every sleep of a running
\* watch returns
FairSpec ==
    /\ Spec
    /\ WF_vars(watch_for)
    /\ WF_vars(WatchRefresh)
    /\ WF_vars(watch_batch_progress)
    /\ WF_vars(watch_job_progress)
    /\ WF_vars(watch_check)
====
